---- MODULE Spec2Model ----
(***************************************************************************)
(* Daily Quiz Session & Attempt Lifecycle of mindgain2.                    *)
(*                                                                         *)
(* The store is the PostgreSQL schema of the "Rebuild Daily Quiz System"   *)
(* migration; the stored procedures are the ones in force after the later  *)
(* "Fix RLS policies" migration, whose CREATE OR REPLACE FUNCTION           *)
(* statements replace the first versions.                                  *)
(*                                                                         *)
(* Every RPC runs as one READ COMMITTED transaction.  Its writes become    *)
(* visible to other transactions at commit only, a unique-key insert waits *)
(* for an in-flight insert of the same key and then fails, and CURRENT_DATE *)
(* is the date of the transaction's start.  A call is therefore modelled   *)
(* as its reading statement (taken when the call starts) followed, when    *)
(* the procedure goes on to write, by one step that performs its writes    *)
(* against the then-committed rows and commits.  Other calls interleave    *)
(* between the two.                                                        *)
(***************************************************************************)
EXTENDS Integers, Sequences, FiniteSets, TLC

\* ---------------------------------------------------------------- bounds
MaxDay == 2
MaxProcs == 2

Users == {"u1", "u2"}
Procs == 1..MaxProcs
Days == 1..MaxDay

\* answer arrays a client may send to submit_daily_quiz_attempt
AnswerChoices == { <<>>, <<1>>, <<1, 2, 1>> }
\* p_time_spent values, in seconds
TimeChoices == {30}
\* the `months` argument of upgradeToPremium
MonthChoices == {0, 1}

\* ------------------------------------------------------- program constants
DefaultDailyLimit == 1
PremiumDailyLimit == 999
SessionTotalQuestions == 20
SessionTotalPoints == 200
XpPerPoint == 2
\* LIMIT 8 / LIMIT 8 / LIMIT 4 of the three selecting statements
RequestedEasy == 8
RequestedMedium == 8
RequestedHard == 4
DaysPerMonth == 30

NULL == "NULL"

\* ------------------------------------------------------------- the store
VARIABLES
  today,                  \* CURRENT_DATE of the database clock
  daily_quiz_questions,   \* question bank rows
  daily_quiz_sessions,    \* committed rows, UNIQUE(quiz_date)
  user_daily_attempts,    \* committed rows, UNIQUE(user_id, quiz_date)
  user_quiz_limits,       \* committed rows, PRIMARY KEY(user_id)
  user_stats,             \* committed rows, one per user_id
  calls                   \* the RPC calls in flight or finished, per slot

vars == << today, daily_quiz_questions, daily_quiz_sessions, user_daily_attempts,
           user_quiz_limits, user_stats, calls >>

\* The bank: rows shaped like the seeded ones.  exam_relevance is a nullable
\* column (and optional in the client's DailyQuizQuestion); q4 leaves it NULL.
QuestionBank ==
  { [id |-> "q1", difficulty |-> "easy",   correct_answer |-> 1, points |-> 10, exam_relevance |-> "UPSC"],
    [id |-> "q2", difficulty |-> "medium", correct_answer |-> 2, points |-> 10, exam_relevance |-> "UPSC"],
    [id |-> "q3", difficulty |-> "hard",   correct_answer |-> 0, points |-> 15, exam_relevance |-> "UPSC"],
    [id |-> "q4", difficulty |-> "easy",   correct_answer |-> 1, points |-> 10, exam_relevance |-> NULL],
    [id |-> "q5", difficulty |-> "hard",   correct_answer |-> 1, points |-> 15, exam_relevance |-> "UPSC"],
    [id |-> "q6", difficulty |-> "hard",   correct_answer |-> 1, points |-> 15, exam_relevance |-> "UPSC"],
    [id |-> "q7", difficulty |-> "hard",   correct_answer |-> 2, points |-> 15, exam_relevance |-> "UPSC"],
    [id |-> "q8", difficulty |-> "hard",   correct_answer |-> 1, points |-> 15, exam_relevance |-> "UPSC"] }

QuestionIds == { q.id : q \in QuestionBank }

\* which questions the bank holds as active, per initial state
ActiveChoices == { {"q1", "q2", "q3"}, {"q1", "q2", "q3", "q4"}, {"q1", "q3"} }

\* a bank whose hard bucket holds more active questions than the four asked for
LargeBucketChoices == { {"q1", "q2", "q3", "q5", "q6", "q7", "q8"} }

\* ------------------------------------------------------------- helpers
Min(a, b) == IF a < b THEN a ELSE b

\* the difference passed on without the floor
GreatestUnclamped(a, b) == b

\* GREATEST(a, b)
Greatest(a, b) == IF a > b THEN a ELSE b

\* gen_random_uuid(): an id no row of the table has.  Ids are told apart only
\* by equality, so the id is built from the row's owner and date and a serial
\* among the rows that share them.
NewId(table, owner, d) ==
  << owner, d, CHOOSE n \in 1..(Cardinality(table) + 1) :
                 \A r \in table : r.id # << owner, d, n >> >>

\* every order in which the rows of a set may be aggregated
Perms(S) == { f \in [1..Cardinality(S) -> S] : \A i, j \in 1..Cardinality(S) : f[i] = f[j] => i = j }

\* ROUND(num::float / den * 100) stored in an integer: round to nearest,
\* ties to even (float8 rounding)
RoundPercent(num, den) ==
  LET n == num * 100
      q == n \div den
      r == n % den
  IN  IF 2 * r < den THEN q
      ELSE IF 2 * r > den THEN q + 1
      ELSE IF q % 2 = 0 THEN q ELSE q + 1

\* row-valued `record IS NOT NULL`: the row is found and none of its columns is null
RecordIsNotNull(rows) == \E q \in rows : q.exam_relevance # NULL

IdleCall == [pc |-> "idle", op |-> "none", user |-> "none", txDate |-> 0, answers |-> <<>>,
             time_spent |-> 0, rd |-> {}, grade |-> <<>>, hadAttempt |-> FALSE,
             checked |-> FALSE, after |-> {}, result |-> [ok |-> FALSE, error |-> "none"]]

Failure(msg) == [ok |-> FALSE, error |-> msg]

\* a call of slot p starts: its transaction takes CURRENT_DATE; `after` notes
\* the calls of the same procedure that had already finished
Begin(p, op, u) ==
  [IdleCall EXCEPT !.op = op, !.user = u, !.txDate = today,
                   !.after = { q \in Procs : calls[q].pc = "done" /\ calls[q].op = op }]

\* the call ends: only what the caller sees of it is kept
Finish(c, res) ==
  [IdleCall EXCEPT !.pc = "done", !.op = c.op, !.user = c.user, !.txDate = c.txDate,
                   !.rd = IF c.op = "check" THEN c.rd ELSE {},
                   !.hadAttempt = c.hadAttempt, !.after = c.after, !.result = res]


\* ------------------------------------------------ uniqueness constraints
\* quiz_date without its UNIQUE constraint
QuizDateNotUnique(d) == TRUE

\* daily_quiz_sessions.quiz_date UNIQUE: may a row with this date be inserted
QuizDateIsFree(d) == \A s \in daily_quiz_sessions : s.quiz_date # d

\* user_daily_attempts without UNIQUE(user_id, quiz_date)
UserDateNotUnique(u, d) == TRUE

\* user_daily_attempts UNIQUE(user_id, quiz_date)
UserDateIsFree(u, d) == \A a \in user_daily_attempts : ~(a.user_id = u /\ a.quiz_date = d)

\* user_quiz_limits PRIMARY KEY(user_id)
LimitKeyIsFree(u) == \A l \in user_quiz_limits : l.user_id # u

\* ------------------------------------------- create_daily_quiz_session()
\* the date test left out: any active session is taken for today's
ActiveSessionAnyDate(d) == { s \in daily_quiz_sessions : s.is_active }

\* the lookup left out: every call samples anew
ActiveSessionLookupSkipped(d) == {}

\* SELECT id FROM daily_quiz_sessions WHERE quiz_date = today_date AND is_active
ActiveSessionOn(d) == { s \in daily_quiz_sessions : s.quiz_date = d /\ s.is_active }

\* LIMIT n over the rows of a result
Limit(rows, n) == SubSeq(rows, 1, Min(n, Len(rows)))

\* SELECT array_agg(id) ... WHERE difficulty = diff AND is_active ORDER BY random() LIMIT n:
\* the aggregate yields a single row holding every matching id, so ORDER BY and
\* LIMIT act on that one row; the order inside the array is unspecified.
\* (With no matching question the row holds NULL, which COALESCE turns into
\* the empty array.)
QuestionsOfDifficulty(diff, n) ==
  { Limit(<< ids >>, n)[1] :
      ids \in Perms({ q.id : q \in { r \in daily_quiz_questions :
                                        r.difficulty = diff /\ r.is_active } }) }

\* '{"easy": 8, "medium": 8, "hard": 4}'::jsonb
DefaultDistribution == [easy |-> 8, medium |-> 8, hard |-> 4]

\* the row the procedure inserts
NewSession(d, selected_question_ids) ==
  [id |-> NewId(daily_quiz_sessions, "session", d), quiz_date |-> d,
   selected_questions |-> selected_question_ids,
   total_questions |-> SessionTotalQuestions, total_points |-> SessionTotalPoints,
   difficulty_distribution |-> DefaultDistribution,
   is_active |-> TRUE]

\* the call starts and looks for today's active session; returns its id if found
CallCreateSession(p) ==
  /\ calls[p].pc = "idle"
  /\ LET c == Begin(p, "create", "none")
         found == ActiveSessionOn(today)
     IN  calls' = [calls EXCEPT ![p] =
           IF found # {}
             THEN Finish(c, [ok |-> TRUE, error |-> "none",
                             session_id |-> (CHOOSE s \in found : TRUE).id])
             ELSE [c EXCEPT !.pc = "create_insert"]]
  /\ UNCHANGED << today, daily_quiz_questions, daily_quiz_sessions,
                  user_daily_attempts, user_quiz_limits, user_stats >>

\* no session was found: sample the questions and INSERT the session row
CreateInsertSession(p) ==
  /\ calls[p].pc = "create_insert"
  /\ IF QuizDateIsFree(calls[p].txDate)
       THEN \E easy_questions \in QuestionsOfDifficulty("easy", RequestedEasy),
               medium_questions \in QuestionsOfDifficulty("medium", RequestedMedium),
               hard_questions \in QuestionsOfDifficulty("hard", RequestedHard) :
              LET row == NewSession(calls[p].txDate,
                                    easy_questions \o medium_questions \o hard_questions)
              IN  /\ daily_quiz_sessions' = daily_quiz_sessions \cup {row}
                  /\ calls' = [calls EXCEPT ![p] =
                       Finish(@, [ok |-> TRUE, error |-> "none", session_id |-> row.id])]
       ELSE /\ calls' = [calls EXCEPT ![p] = Finish(@, Failure("unique_violation"))]
            /\ UNCHANGED daily_quiz_sessions
  /\ UNCHANGED << today, daily_quiz_questions, user_daily_attempts,
                  user_quiz_limits, user_stats >>


\* ------------------------------------------- check_user_quiz_limit(p_user_id)
\* SELECT * FROM user_quiz_limits WHERE user_id = p_user_id
LimitsOf(u) == { l \in user_quiz_limits : l.user_id = u }

\* INSERT INTO user_quiz_limits (user_id, daily_limit, attempts_today, is_premium)
\* VALUES (p_user_id, 1, 0, false); the other columns take their defaults
DefaultLimits(u, d) ==
  [user_id |-> u, daily_limit |-> DefaultDailyLimit, attempts_today |-> 0,
   last_attempt_date |-> d, is_premium |-> FALSE, premium_expires_at |-> <<>>]

\* the date test turned round
IsNewDayReversed(user_limits, d) == user_limits.last_attempt_date > d

\* IF user_limits.last_attempt_date != CURRENT_DATE
IsNewDay(user_limits, d) == user_limits.last_attempt_date # d

\* UPDATE user_quiz_limits SET attempts_today = 0, last_attempt_date = CURRENT_DATE
ResetRow(l, d) == [l EXCEPT !.attempts_today = 0, !.last_attempt_date = d]

\* can_attempt, remaining_attempts and the jsonb the procedure returns
LimitStatus(user_limits) ==
  [ok |-> TRUE, error |-> "none",
   can_attempt |-> user_limits.attempts_today < user_limits.daily_limit,
   remaining_attempts |-> Greatest(0, user_limits.daily_limit - user_limits.attempts_today),
   is_premium |-> user_limits.is_premium,
   daily_limit |-> user_limits.daily_limit,
   attempts_today |-> user_limits.attempts_today]

\* the call starts and reads the user's limit row
CallCheckLimit(p, u) ==
  /\ calls[p].pc = "idle"
  /\ LET c == [Begin(p, "check", u) EXCEPT !.rd = LimitsOf(u),
                                             !.hadAttempt = ~UserDateIsFree(u, today)]
     IN  calls' = [calls EXCEPT ![p] =
           IF c.rd = {} THEN [c EXCEPT !.pc = "check_insert"]
           ELSE LET user_limits == CHOOSE l \in c.rd : TRUE
                IN  IF IsNewDay(user_limits, c.txDate)
                      THEN [c EXCEPT !.pc = "check_reset"]
                      ELSE Finish(c, LimitStatus(user_limits))]
  /\ UNCHANGED << today, daily_quiz_questions, daily_quiz_sessions,
                  user_daily_attempts, user_quiz_limits, user_stats >>

\* no row was found: INSERT the default row (it carries today's date, so no reset follows)
CheckInsertLimits(p) ==
  /\ calls[p].pc = "check_insert"
  /\ LET u == calls[p].user
         row == DefaultLimits(u, calls[p].txDate)
     IN  IF LimitKeyIsFree(u)
           THEN /\ user_quiz_limits' = user_quiz_limits \cup {row}
                /\ calls' = [calls EXCEPT ![p] = Finish(@, LimitStatus(row))]
           ELSE /\ calls' = [calls EXCEPT ![p] = Finish(@, Failure("unique_violation"))]
                /\ UNCHANGED user_quiz_limits
  /\ UNCHANGED << today, daily_quiz_questions, daily_quiz_sessions,
                  user_daily_attempts, user_stats >>

\* the row read carries another date: UPDATE the stored row, zero the local copy
CheckResetLimits(p) ==
  /\ calls[p].pc = "check_reset"
  /\ LET u == calls[p].user
         d == calls[p].txDate
         user_limits == CHOOSE l \in calls[p].rd : TRUE
     IN  /\ user_quiz_limits' = { IF l.user_id = u THEN ResetRow(l, d) ELSE l :
                                    l \in user_quiz_limits }
         /\ calls' = [calls EXCEPT ![p] =
              Finish(@, LimitStatus([user_limits EXCEPT !.attempts_today = 0]))]
  /\ UNCHANGED << today, daily_quiz_questions, daily_quiz_sessions,
                  user_daily_attempts, user_stats >>

\* DailyQuizService.checkUserLimits: what the client gets from the call; an
\* error of the call is answered with a record that denies the quiz
CheckUserLimitsDenying(rpc) ==
  IF rpc.ok
    THEN [can_attempt |-> rpc.can_attempt, remaining_attempts |-> rpc.remaining_attempts,
          is_premium |-> rpc.is_premium, daily_limit |-> rpc.daily_limit,
          attempts_today |-> rpc.attempts_today]
    ELSE [can_attempt |-> FALSE, remaining_attempts |-> 0, is_premium |-> FALSE,
          daily_limit |-> DefaultDailyLimit, attempts_today |-> DefaultDailyLimit]

\* DailyQuizService.checkUserLimits: what the client gets from the call; an
\* error of the call is answered with permissive defaults
CheckUserLimits(rpc) ==
  IF rpc.ok
    THEN [can_attempt |-> rpc.can_attempt, remaining_attempts |-> rpc.remaining_attempts,
          is_premium |-> rpc.is_premium, daily_limit |-> rpc.daily_limit,
          attempts_today |-> rpc.attempts_today]
    ELSE [can_attempt |-> TRUE, remaining_attempts |-> 1, is_premium |-> FALSE,
          daily_limit |-> 1, attempts_today |-> 0]


\* ------------------- submit_daily_quiz_attempt(p_user_id, p_answers, p_time_spent)
\* SELECT * FROM daily_quiz_questions WHERE id = selected_questions[i]
QuestionById(id) == { q \in daily_quiz_questions : q.id = id }

\* IF question_record IS NOT NULL AND p_answers[i] = question_record.correct_answer
IsCorrect(question_record, answer) ==
  /\ RecordIsNotNull(question_record)
  /\ \E q \in question_record : answer = q.correct_answer

\* FOR i IN 1..total_questions LOOP ... END LOOP, from position i on;
\* acc carries correct_answers and total_points
RECURSIVE CheckAnswers(_, _, _, _, _)
CheckAnswers(i, total_questions, p_answers, selected_questions, acc) ==
  IF i > total_questions THEN acc
  ELSE LET counted ==
             /\ i <= Len(selected_questions)
             /\ IsCorrect(QuestionById(selected_questions[i]), p_answers[i])
           points == IF counted
                       THEN (CHOOSE q \in QuestionById(selected_questions[i]) : TRUE).points
                       ELSE 0
       IN  CheckAnswers(i + 1, total_questions, p_answers, selected_questions,
                        [correct_answers |-> acc.correct_answers + (IF counted THEN 1 ELSE 0),
                         total_points |-> acc.total_points + points])

\* total_questions := array_length(p_answers, 1)
TotalQuestions(p_answers, session_record) == Len(p_answers)

\* the values the procedure computes before it inserts the attempt
Grade(p_answers, session_record) ==
  LET total_questions == TotalQuestions(p_answers, session_record)
      counts == CheckAnswers(1, total_questions, p_answers,
                             session_record.selected_questions,
                             [correct_answers |-> 0, total_points |-> 0])
  IN  [correct_answers |-> counts.correct_answers,
       total_questions |-> total_questions,
       score_percentage |-> RoundPercent(counts.correct_answers, total_questions),
       total_points |-> counts.total_points,
       xp_earned |-> counts.total_points * XpPerPoint]

\* a finished limit check of the user, made today, reported can_attempt = true,
\* and the user has submitted nothing since that check began
CanAttemptReported(u) ==
  \E q \in Procs :
    /\ calls[q].pc = "done" /\ calls[q].op = "check" /\ calls[q].user = u
    /\ calls[q].txDate = today /\ calls[q].result.ok /\ calls[q].result.can_attempt
    /\ calls[q].hadAttempt = ~UserDateIsFree(u, today)

\* the call starts, reads today's session and grades the answers.  An empty
\* array has array_length NULL, and FOR i IN 1..NULL raises an error.
\* (`checked` notes whether the client's limit check had just allowed it.)
CallSubmitAttempt(p, u, p_answers, p_time_spent) ==
  /\ calls[p].pc = "idle"
  /\ LET c == [Begin(p, "submit", u) EXCEPT !.answers = p_answers,
                 !.time_spent = p_time_spent, !.rd = ActiveSessionOn(today),
                 !.hadAttempt = ~UserDateIsFree(u, today),
                 !.checked = CanAttemptReported(u)]
     IN  calls' = [calls EXCEPT ![p] =
           IF c.rd = {} THEN Finish(c, Failure("no_active_session"))
           ELSE IF Len(p_answers) = 0 THEN Finish(c, Failure("null_loop_bound"))
           ELSE [c EXCEPT !.pc = "submit_insert",
                          !.grade = << Grade(p_answers, CHOOSE s \in c.rd : TRUE) >>]]
  /\ UNCHANGED << today, daily_quiz_questions, daily_quiz_sessions,
                  user_daily_attempts, user_quiz_limits, user_stats >>

\* UPDATE user_quiz_limits SET attempts_today = attempts_today + 1, last_attempt_date = CURRENT_DATE
ConsumeAttempt(l, d) ==
  [l EXCEPT !.attempts_today = l.attempts_today + 1, !.last_attempt_date = d]

\* the upsert as a blind overwrite of the row
UpsertStatsOverwriting(u, xp_earned, d) ==
  { st \in user_stats : st.user_id # u } \cup
    { [user_id |-> u, total_xp |-> xp_earned, missions_completed |-> 1,
       last_activity_date |-> d] }

\* INSERT INTO user_stats ... ON CONFLICT (user_id) DO UPDATE SET total_xp = total_xp + xp_earned, ...
UpsertStats(u, xp_earned, d) ==
  IF \E st \in user_stats : st.user_id = u
    THEN { IF st.user_id = u
             THEN [st EXCEPT !.total_xp = st.total_xp + xp_earned,
                             !.missions_completed = st.missions_completed + 1,
                             !.last_activity_date = d]
             ELSE st : st \in user_stats }
    ELSE user_stats \cup { [user_id |-> u, total_xp |-> xp_earned,
                            missions_completed |-> 1, last_activity_date |-> d] }

\* a refused INSERT that lets the procedure run on
InsertNeverRaises(inserted) == FALSE

\* INSERT ... RETURNING id INTO attempt_id: a refused insert raises
\* unique_violation, which ends the procedure and rolls its transaction back
InsertRaises(inserted) == ~inserted

\* INSERT the attempt; on success update the limit row and the stats, and commit
SubmitInsertAttempt(p) ==
  /\ calls[p].pc = "submit_insert"
  /\ LET u == calls[p].user
         d == calls[p].txDate
         g == calls[p].grade[1]
         session_record == CHOOSE s \in calls[p].rd : TRUE
         row == [id |-> NewId(user_daily_attempts, u, d), user_id |-> u,
                 quiz_session_id |-> session_record.id, quiz_date |-> d,
                 answers |-> calls[p].answers,
                 correct_answers |-> g.correct_answers,
                 total_questions |-> g.total_questions,
                 score_percentage |-> g.score_percentage,
                 total_points |-> g.total_points,
                 time_spent |-> calls[p].time_spent]
         inserted == UserDateIsFree(u, d)
     IN  IF ~InsertRaises(inserted)
           THEN /\ user_daily_attempts' = IF inserted THEN user_daily_attempts \cup {row}
                                                      ELSE user_daily_attempts
                /\ user_quiz_limits' = { IF l.user_id = u THEN ConsumeAttempt(l, d) ELSE l :
                                           l \in user_quiz_limits }
                /\ user_stats' = UpsertStats(u, g.xp_earned, d)
                /\ calls' = [calls EXCEPT ![p] =
                     Finish(@, [ok |-> TRUE, error |-> "none", attempt_id |-> row.id,
                                correct_answers |-> g.correct_answers,
                                total_questions |-> g.total_questions,
                                score_percentage |-> g.score_percentage,
                                total_points |-> g.total_points,
                                xp_earned |-> g.xp_earned,
                                time_spent |-> calls[p].time_spent])]
           ELSE /\ calls' = [calls EXCEPT ![p] = Finish(@, Failure("unique_violation"))]
                /\ UNCHANGED << user_daily_attempts, user_quiz_limits, user_stats >>
  /\ UNCHANGED << today, daily_quiz_questions, daily_quiz_sessions >>

\* ------------------------------------------ SupabaseService.submitDailyQuiz
\* try { result = await submitQuizAttempt(...); return { success: true, results } }
\* catch (error) { return { success: false, error: error.message } }:
\* the message of the error the RPC raised is handed on as it is
SubmitDailyQuiz(rpc) ==
  IF rpc.ok
    THEN [success |-> TRUE, error |-> "none", score_percentage |-> rpc.score_percentage]
    ELSE [success |-> FALSE, error |-> rpc.error, score_percentage |-> 0]

\* submitQuiz of the quiz screen: the server's results when the submission
\* succeeded, results computed on the device when it did not; either way the
\* quiz is marked completed and the "Quiz Complete!" alert is shown
SubmitQuiz(submitResult) ==
  [isCompleted |-> TRUE, alert |-> "Quiz Complete!",
   results |-> IF submitResult.success THEN "server" ELSE "fallback"]

\* ------------------------------------------ SupabaseService.getUserStats
\* the unique key of user_stats that ON CONFLICT (user_id) names
StatsKeyIsFree(u) == \A st \in user_stats : st.user_id # u

\* insert({ user_id, total_xp: 0, missions_completed: 0, ... }); no activity date is given
DefaultStats(u) ==
  [user_id |-> u, total_xp |-> 0, missions_completed |-> 0, last_activity_date |-> 0]

\* select('*').eq('user_id', userId).single(): the row is returned when there is one
CallGetUserStats(p, u) ==
  /\ calls[p].pc = "idle"
  /\ LET c == Begin(p, "stats", u)
         found == { st \in user_stats : st.user_id = u }
     IN  calls' = [calls EXCEPT ![p] =
           IF found # {}
             THEN Finish(c, [ok |-> TRUE, error |-> "none",
                             total_xp |-> (CHOOSE st \in found : TRUE).total_xp])
             ELSE [c EXCEPT !.pc = "stats_insert"]]
  /\ UNCHANGED << today, daily_quiz_questions, daily_quiz_sessions,
                  user_daily_attempts, user_quiz_limits, user_stats >>

\* no row was found: insert the default row; a createError is caught and null returned
StatsInsertDefault(p) ==
  /\ calls[p].pc = "stats_insert"
  /\ LET u == calls[p].user
     IN  IF StatsKeyIsFree(u)
           THEN /\ user_stats' = user_stats \cup { DefaultStats(u) }
                /\ calls' = [calls EXCEPT ![p] =
                     Finish(@, [ok |-> TRUE, error |-> "none", total_xp |-> 0])]
           ELSE /\ calls' = [calls EXCEPT ![p] = Finish(@, Failure("null"))]
                /\ UNCHANGED user_stats
  /\ UNCHANGED << today, daily_quiz_questions, daily_quiz_sessions,
                  user_daily_attempts, user_quiz_limits >>

\* ------------------------------------ DailyQuizService.upgradeToPremium
\* expiresAt.setMonth(expiresAt.getMonth() + months), counted in days
PremiumExpiry(now, months) == now + months * DaysPerMonth

\* upsert of { user_id, is_premium, premium_expires_at, daily_limit }: one statement
UpgradeToPremium(u, months) ==
  /\ user_quiz_limits' =
       IF LimitKeyIsFree(u)
         THEN user_quiz_limits \cup
                { [DefaultLimits(u, today) EXCEPT !.is_premium = TRUE,
                     !.premium_expires_at = << PremiumExpiry(today, months) >>,
                     !.daily_limit = PremiumDailyLimit] }
         ELSE { IF l.user_id = u
                  THEN [l EXCEPT !.is_premium = TRUE,
                          !.premium_expires_at = << PremiumExpiry(today, months) >>,
                          !.daily_limit = PremiumDailyLimit]
                  ELSE l : l \in user_quiz_limits }
  /\ user_quiz_limits' # user_quiz_limits
  /\ UNCHANGED << today, daily_quiz_questions, daily_quiz_sessions,
                  user_daily_attempts, user_stats, calls >>

\* is_premium AND (premium_expires_at IS NULL OR premium_expires_at > now())
PremiumInForce(l, now) ==
  l.is_premium /\ (l.premium_expires_at = <<>> \/ l.premium_expires_at[1] > now)

\* ------------- DailyQuizService.getTodayQuiz, SupabaseService.ensureTodayQuiz
\* .from('daily_quiz_sessions').select('*').eq('quiz_date', <the client's date>)
SessionsOn(d) == { s \in daily_quiz_sessions : s.quiz_date = d }

\* .from('daily_quiz_questions').in('id', selected_questions).eq('is_active', true)
ActiveQuestionsIn(selected_questions) ==
  { q.id : q \in { r \in daily_quiz_questions :
                      /\ r.is_active
                      /\ \E i \in 1..Len(selected_questions) :
                           selected_questions[i] = r.id } }

\* selected_questions.map(id => questions.find(q => q.id === id)).filter(Boolean)
RECURSIVE SortedQuestions(_, _)
SortedQuestions(selected_questions, questions) ==
  IF selected_questions = <<>> THEN <<>>
  ELSE ( IF Head(selected_questions) \in questions
           THEN << Head(selected_questions) >> ELSE <<>> )
       \o SortedQuestions(Tail(selected_questions), questions)

\* catch (error) { return null }: `cause` is the error caught, `fetches` the
\* number of reads of daily_quiz_sessions the client made
NullQuiz(cause, fetches) ==
  [ok |-> FALSE, error |-> "null", cause |-> cause, fetches |-> fetches]

\* the client has the result of its create_daily_quiz_session call: an error
\* ends the call; otherwise it reads the session row of its own date
GetSession(p) ==
  /\ calls[p].pc = "done" /\ calls[p].op = "create"
  /\ LET rpc == calls[p].result
         c == [calls[p] EXCEPT !.op = "quiz"]
         session == SessionsOn(today)
     IN  calls' = [calls EXCEPT ![p] =
           IF ~rpc.ok THEN Finish(c, NullQuiz("create_failed", 0))
           ELSE IF Cardinality(session) # 1 THEN Finish(c, NullQuiz("no_session", 1))
           ELSE [c EXCEPT !.pc = "quiz_questions", !.rd = session]]
  /\ UNCHANGED << today, daily_quiz_questions, daily_quiz_sessions,
                  user_daily_attempts, user_quiz_limits, user_stats >>

\* the client reads the active questions of the session and puts them in the
\* order of selected_questions
GetQuestions(p) ==
  /\ calls[p].pc = "quiz_questions"
  /\ LET session == CHOOSE s \in calls[p].rd : TRUE
         questions == ActiveQuestionsIn(session.selected_questions)
     IN  calls' = [calls EXCEPT ![p] =
           IF questions = {} THEN Finish(@, NullQuiz("no_questions", 1))
           ELSE Finish(@, [ok |-> TRUE, error |-> "none", fetches |-> 1,
                           id |-> session.id, quiz_date |-> session.quiz_date,
                           questions |-> SortedQuestions(session.selected_questions,
                                                         questions),
                           total_questions |-> session.total_questions,
                           total_points |-> session.total_points])]
  /\ UNCHANGED << today, daily_quiz_questions, daily_quiz_sessions,
                  user_daily_attempts, user_quiz_limits, user_stats >>

\* ensureTodayQuiz: if (!quiz) throw new Error('Failed to get today's quiz')
EnsureTodayQuiz(quiz) ==
  IF quiz.ok THEN quiz ELSE [quiz EXCEPT !.error = "Failed to get today's quiz"]


\* ------------------------------------------------------ question bank
\* questions the service role switches on and off
ManagedQuestions == {"q1", "q2"}

\* "Service role can manage questions": a question is activated or deactivated
SetQuestionActive(id, active) ==
  /\ \E q \in daily_quiz_questions : q.id = id /\ q.is_active # active
  /\ daily_quiz_questions' = { IF q.id = id THEN [q EXCEPT !.is_active = active] ELSE q :
                                 q \in daily_quiz_questions }
  /\ UNCHANGED << today, daily_quiz_sessions, user_daily_attempts,
                  user_quiz_limits, user_stats, calls >>

\* -------------------------------------------------------- environment
\* the calendar date changes
AdvanceDay ==
  /\ today < MaxDay
  /\ today' = today + 1
  /\ UNCHANGED << daily_quiz_questions, daily_quiz_sessions, user_daily_attempts,
                  user_quiz_limits, user_stats, calls >>

\* the caller has taken the result of a finished call; the slot serves a new call
Return(p) ==
  /\ calls[p].pc = "done"
  /\ calls' = [q \in Procs |->
                 IF q = p THEN IdleCall
                 ELSE [calls[q] EXCEPT !.after = @ \ {p}]]
  /\ UNCHANGED << today, daily_quiz_questions, daily_quiz_sessions, user_daily_attempts,
                  user_quiz_limits, user_stats >>

\* ------------------------------------------------------- specification
\* the initial store: an empty database over a seeded bank, one choice of active questions
InitWith(activeChoices) ==
  /\ today = 1
  /\ \E active \in activeChoices :
       daily_quiz_questions = { [id |-> q.id, difficulty |-> q.difficulty,
                                 correct_answer |-> q.correct_answer, points |-> q.points,
                                 exam_relevance |-> q.exam_relevance,
                                 is_active |-> (q.id \in active)] : q \in QuestionBank }
  /\ daily_quiz_sessions = {}
  /\ user_daily_attempts = {}
  /\ user_quiz_limits = {}
  /\ user_stats = {}
  /\ calls = [p \in Procs |-> IdleCall]

\* the RPCs and the passing of time, for the given users and answer arrays
Rpc(users, answerChoices) ==
  \/ \E p \in Procs : CallCreateSession(p)
  \/ \E p \in Procs : CreateInsertSession(p)
  \/ \E p \in Procs, u \in users : CallCheckLimit(p, u)
  \/ \E p \in Procs : CheckInsertLimits(p)
  \/ \E p \in Procs : CheckResetLimits(p)
  \/ \E p \in Procs, u \in users, a \in answerChoices, t \in TimeChoices :
       CallSubmitAttempt(p, u, a, t)
  \/ \E p \in Procs : SubmitInsertAttempt(p)
  \/ AdvanceDay
  \/ \E p \in Procs : Return(p)

\* one user, every input: free and premium, every bank
Init == InitWith(ActiveChoices)

Next ==
  \/ Rpc({"u1"}, AnswerChoices)
  \/ \E m \in MonthChoices : UpgradeToPremium("u1", m)

Spec == Init /\ [][Next]_vars

\* two users over the three-question bank, one of whom may buy premium
InitUsers == InitWith({ {"q1", "q2", "q3"} })

NextUsers ==
  \/ Rpc(Users, { <<1, 2, 1>> })
  \/ UpgradeToPremium("u1", 1)

SpecUsers == InitUsers /\ [][NextUsers]_vars

\* the Session Manager alone: racing create_daily_quiz_session calls, any bank
NextSessions ==
  \/ \E p \in Procs : CallCreateSession(p)
  \/ \E p \in Procs : CreateInsertSession(p)
  \/ AdvanceDay
  \/ \E p \in Procs : Return(p)

SpecSessions == Init /\ [][NextSessions]_vars

\* one free user over the three-question bank
NextLimits == Rpc({"u1"}, { <<1, 2, 1>> })

SpecLimits == InitUsers /\ [][NextLimits]_vars

\* one free user whose stats the client also reads and creates
NextStats ==
  \/ NextLimits
  \/ \E p \in Procs : CallGetUserStats(p, "u1")
  \/ \E p \in Procs : StatsInsertDefault(p)

SpecStats == InitUsers /\ [][NextStats]_vars

\* the Session Manager while the bank changes under it
NextBank ==
  \/ NextSessions
  \/ \E id \in ManagedQuestions, active \in BOOLEAN : SetQuestionActive(id, active)

SpecBank == InitUsers /\ [][NextBank]_vars

\* clients loading today's quiz while the bank changes and the date advances
NextQuiz ==
  \/ NextBank
  \/ \E p \in Procs : GetSession(p)
  \/ \E p \in Procs : GetQuestions(p)

SpecQuiz == InitUsers /\ [][NextQuiz]_vars

\* create_daily_quiz_session calls of one date over a bank with a large bucket
InitSelect == InitWith(LargeBucketChoices)

NextSelect ==
  \/ \E p \in Procs : CallCreateSession(p)
  \/ \E p \in Procs : CreateInsertSession(p)
  \/ \E p \in Procs : Return(p)

SpecSelect == InitSelect /\ [][NextSelect]_vars


\* ------------------------------------------------------------ properties
Done(p, op) == calls[p].pc = "done" /\ calls[p].op = op

\* two finished calls that were in flight at the same time
Concurrent(p, q) == p # q /\ p \notin calls[q].after /\ q \notin calls[p].after

\* C1: after any interleaving of create_daily_quiz_session calls the store
\* holds at most one daily_quiz_sessions row per quiz_date.
C1_OneSessionPerDate ==
  \A s1, s2 \in daily_quiz_sessions : s1.quiz_date = s2.quiz_date => s1 = s2

\* two calls raced for the same date: one inserted the row, the other's insert was refused
C1_Witness ==
  \E p, q \in Procs :
    /\ Concurrent(p, q) /\ Done(p, "create") /\ Done(q, "create")
    /\ calls[p].txDate = calls[q].txDate
    /\ calls[p].result.ok /\ calls[q].result.error = "unique_violation"
    /\ \E s \in daily_quiz_sessions : s.quiz_date = calls[p].txDate

\* C2: when callers race to create the session of a date, every caller returns
\* the id of the single stored session; the loser of the insert re-reads the
\* row instead of surfacing an error.
C2_EveryCallerGetsTheSession ==
  \A p \in Procs :
    Done(p, "create") =>
      /\ calls[p].result.ok
      /\ \E s \in daily_quiz_sessions :
           s.quiz_date = calls[p].txDate /\ s.id = calls[p].result.session_id

\* C3: of two concurrent submit_daily_quiz_attempt calls of one user for one
\* day with a session present (and no attempt of that day recorded when they
\* start), exactly one succeeds and the other fails on the uniqueness violation
\* of the attempt insert (AlreadySubmittedToday).
C3_OneOfTwoSubmitsWins ==
  \A p, q \in Procs :
    ( /\ Concurrent(p, q) /\ Done(p, "submit") /\ Done(q, "submit")
      /\ calls[p].user = calls[q].user /\ calls[p].txDate = calls[q].txDate
      /\ ~calls[p].hadAttempt /\ ~calls[q].hadAttempt
      /\ calls[p].result.error # "no_active_session"
      /\ calls[q].result.error # "no_active_session" )
    => \/ calls[p].result.ok /\ calls[q].result.error = "unique_violation"
       \/ calls[q].result.ok /\ calls[p].result.error = "unique_violation"

\* C4: in every reachable state user_daily_attempts holds at most one row per
\* (user_id, quiz_date), for free and premium users alike.
C4_OneAttemptPerUserAndDate ==
  \A a1, a2 \in user_daily_attempts :
    (a1.user_id = a2.user_id /\ a1.quiz_date = a2.quiz_date) => a1 = a2

\* a premium user's second submission of the day was refused by the constraint,
\* while the other user submitted on the same date
C4_Witness ==
  \E p \in Procs :
    /\ Done(p, "submit") /\ calls[p].result.error = "unique_violation"
    /\ \E l \in LimitsOf(calls[p].user) : PremiumInForce(l, today)
    /\ \E a1, a2 \in user_daily_attempts :
         a1.user_id # a2.user_id /\ a1.quiz_date = a2.quiz_date
         /\ a1.quiz_date = calls[p].txDate


\* RAISE EXCEPTION 'Daily quiz limit exceeded' of the first version of the
\* procedure: the error a submission refused by the Limit Guard would carry
LimitExceeded == "limit_exceeded"

\* C5: a free user with daily_limit = 1 and a session today: after the first
\* submission of the day the limit check reports can_attempt = false and
\* remaining = 0, and a second submission that day fails with LimitExceeded.
C5_SecondAttemptIsLimitExceeded ==
  \A p \in Procs :
    LET free == \A l \in LimitsOf(calls[p].user) :
                  ~l.is_premium /\ l.daily_limit = DefaultDailyLimit
    IN  /\ ( Done(p, "check") /\ calls[p].hadAttempt /\ free /\ calls[p].result.ok )
           => ( ~calls[p].result.can_attempt /\ calls[p].result.remaining_attempts = 0 )
        /\ ( Done(p, "submit") /\ calls[p].hadAttempt /\ free
             /\ calls[p].result.error # "no_active_session" )
           => calls[p].result.error = LimitExceeded

\* the row a finishing check call read: the stored row when it reads and returns
\* in one step, the row it kept otherwise
RowRead(p) == IF calls[p].pc = "idle" THEN LimitsOf(calls'[p].user) ELSE calls[p].rd

\* C6: whatever attempts_today is stored, a check that finds a last_attempt_date
\* other than the current date sets attempts_today to 0 and last_attempt_date
\* to the current date, and reports attempts_today = 0.
C6_CheckOnNewDateResets ==
  [][ \A p \in Procs :
        ( /\ calls[p].pc # "done" /\ calls'[p].pc = "done" /\ calls'[p].op = "check"
          /\ \E l \in RowRead(p) : l.last_attempt_date # calls'[p].txDate )
        => /\ calls'[p].result.ok /\ calls'[p].result.attempts_today = 0
           /\ \E l \in user_quiz_limits' :
                /\ l.user_id = calls'[p].user
                /\ l.attempts_today = 0
                /\ l.last_attempt_date = calls'[p].txDate ]_vars

\* a check on day 2 read a row of day 1 with a used attempt and reported 0
C6_Witness ==
  \E p \in Procs :
    /\ Done(p, "check") /\ calls[p].result.ok /\ calls[p].result.attempts_today = 0
    /\ \E l \in calls[p].rd : l.last_attempt_date # calls[p].txDate /\ l.attempts_today > 0
    /\ \E l \in LimitsOf(calls[p].user) :
         l.attempts_today = 0 /\ l.last_attempt_date = calls[p].txDate

\* C7: in every reachable state a user whose premium is off or expired has
\* attempts_today <= daily_limit.
C7_AttemptsWithinLimit ==
  \A l \in user_quiz_limits :
    ~PremiumInForce(l, today) => l.attempts_today <= l.daily_limit

\* remaining_attempts := 999 of the first version: the "unlimited" value
UnlimitedSentinel == 999

\* C8: for a user whose premium is in force the limit check reports
\* can_attempt = true and remaining = the unlimited sentinel, whatever
\* attempts_today and daily_limit are.
C8_PremiumIsUnlimited ==
  \A p \in Procs :
    ( Done(p, "check") /\ calls[p].result.ok
      /\ \E l \in calls[p].rd : PremiumInForce(l, calls[p].txDate) )
    => ( calls[p].result.can_attempt
         /\ calls[p].result.remaining_attempts = UnlimitedSentinel )

\* the session an attempt row references
SessionOf(a) == CHOOSE s \in daily_quiz_sessions : s.id = a.quiz_session_id

\* C9: every stored and returned score_percentage lies in 0..100 and equals
\* round(100 * correct_count / total_questions), total_questions being the
\* number of questions of the session.
C9_ScoreIsPercentOfSessionQuestions ==
  /\ \A a \in user_daily_attempts :
       /\ a.score_percentage \in 0..100
       /\ Len(SessionOf(a).selected_questions) > 0
       /\ a.score_percentage =
            RoundPercent(a.correct_answers, Len(SessionOf(a).selected_questions))
  /\ \A p \in Procs :
       ( Done(p, "submit") /\ calls[p].result.ok ) =>
         \E a \in user_daily_attempts :
           /\ a.id = calls[p].result.attempt_id
           /\ a.score_percentage = calls[p].result.score_percentage

\* the bank's row of a question id
BankRow(id) == CHOOSE q \in QuestionBank : q.id = id

\* the positions of an attempt whose answer equals the correct answer of the
\* session's question at that position
CorrectPositions(a) ==
  { i \in 1..Min(Len(a.answers), Len(SessionOf(a).selected_questions)) :
      a.answers[i] = BankRow(SessionOf(a).selected_questions[i]).correct_answer }

RECURSIVE SumPoints(_, _)
SumPoints(a, positions) ==
  IF positions = {} THEN 0
  ELSE LET i == CHOOSE j \in positions : TRUE
       IN  BankRow(SessionOf(a).selected_questions[i]).points + SumPoints(a, positions \ {i})

\* C10: correct_count is the number of positions i with answers[i] equal to the
\* correct_answer of the session's i-th question, and total_points_earned the
\* sum of the points of exactly those questions.
C10_GradingCountsMatches ==
  \A a \in user_daily_attempts :
    /\ a.correct_answers = Cardinality(CorrectPositions(a))
    /\ a.total_points = SumPoints(a, CorrectPositions(a))

\* the difficulty of a question id
DifficultyOf(id) == BankRow(id).difficulty

\* how many of a session's selected questions have the difficulty
SelectedOf(s, diff) ==
  Cardinality({ i \in 1..Len(s.selected_questions) :
                  DifficultyOf(s.selected_questions[i]) = diff })

\* how many active questions of the difficulty the bank holds
AvailableOf(diff) ==
  Cardinality({ q \in daily_quiz_questions : q.difficulty = diff /\ q.is_active })

\* C11: a created session holds, per difficulty, min(requested, active questions
\* of that difficulty) questions, requested being 8 easy, 8 medium and 4 hard:
\* never more than requested, and all of them when the bucket is short.
C11_SelectsRequestedPerDifficulty ==
  \A s \in daily_quiz_sessions :
    /\ SelectedOf(s, "easy") = Min(RequestedEasy, AvailableOf("easy"))
    /\ SelectedOf(s, "medium") = Min(RequestedMedium, AvailableOf("medium"))
    /\ SelectedOf(s, "hard") = Min(RequestedHard, AvailableOf("hard"))

\* the points of the questions of a list of ids, summed from position i on
RECURSIVE PointsFrom(_, _)
PointsFrom(ids, i) ==
  IF i > Len(ids) THEN 0 ELSE BankRow(ids[i]).points + PointsFrom(ids, i + 1)

\* C12: for every stored session, total_points is the sum of the points of the
\* questions listed in selected_questions, whatever the bank holds.
C12_TotalPointsIsSumOfSelected ==
  \A s \in daily_quiz_sessions : s.total_points = PointsFrom(s.selected_questions, 1)

\* C13: for every stored session, total_questions is the length of
\* selected_questions and difficulty_distribution gives, per difficulty, the
\* number of selected questions of that difficulty.
C13_CountsMatchSelection ==
  \A s \in daily_quiz_sessions :
    /\ s.total_questions = Len(s.selected_questions)
    /\ s.difficulty_distribution.easy = SelectedOf(s, "easy")
    /\ s.difficulty_distribution.medium = SelectedOf(s, "medium")
    /\ s.difficulty_distribution.hard = SelectedOf(s, "hard")

NoActiveSession == "no_active_session"

\* C15: a submit_daily_quiz_attempt call made when no active session exists for
\* today fails with NoActiveSession and records nothing: no attempt row, no
\* change of a limit row, no change of the stats.
C15_NoSessionRecordsNothing ==
  [][ \A p \in Procs :
        ( /\ calls[p].pc = "idle" /\ calls'[p].pc # "idle" /\ calls'[p].op = "submit"
          /\ ~\E s \in daily_quiz_sessions : s.quiz_date = today /\ s.is_active )
        => /\ calls'[p].pc = "done" /\ ~calls'[p].result.ok
           /\ calls'[p].result.error = NoActiveSession
           /\ UNCHANGED << user_daily_attempts, user_quiz_limits, user_stats >> ]_vars

\* a user with an attempt, a limit row and stats from the day before submitted
\* on a day without a session: the call failed and the rows are those of the
\* day before
C15_Witness ==
  \E p \in Procs :
    /\ Done(p, "submit") /\ calls[p].result.error = NoActiveSession
    /\ calls[p].txDate = today /\ ActiveSessionOn(today) = {}
    /\ UserDateIsFree(calls[p].user, today)
    /\ \E a \in user_daily_attempts : a.user_id = calls[p].user /\ a.quiz_date < today
    /\ \E l \in LimitsOf(calls[p].user) : l.attempts_today = 1 /\ l.last_attempt_date < today
    /\ \E st \in user_stats : st.user_id = calls[p].user /\ st.missions_completed = 1

\* C16: a submission whose answers array is shorter than the session's question
\* list, the empty array included, is accepted: no call is refused for its
\* array, the answers given are graded position by position, and the attempt is
\* recorded with total_questions equal to the session's question count.
C16_ShortAnswersAreAccepted ==
  /\ \A p \in Procs :
       Done(p, "submit") => calls[p].result.error \in {"none", NoActiveSession, "unique_violation"}
  /\ \A a \in user_daily_attempts :
       /\ a.total_questions = Len(SessionOf(a).selected_questions)
       /\ a.correct_answers <= Len(a.answers)

\* the user's attempts_today, 0 without a limit row
AttemptsToday(limits, u) ==
  IF \E l \in limits : l.user_id = u
    THEN (CHOOSE l \in limits : l.user_id = u).attempts_today ELSE 0

\* the user's stats rows
StatsOf(stats, u) == { st \in stats : st.user_id = u }

\* C17: attempts_today is incremented and the stats are updated only once the
\* attempt row has been inserted: a step that raises a user's attempts_today
\* or changes the user's stats inserts an attempt row of that user, and every
\* submit_daily_quiz_attempt call that fails leaves the limit rows and the
\* stats as they were.
C17_PostProcessingOnlyAfterInsert ==
  [][ /\ \A p \in Procs :
           ( calls[p].pc # "done" /\ calls'[p].pc = "done" /\ calls'[p].op = "submit"
             /\ ~calls'[p].result.ok )
           => UNCHANGED << user_daily_attempts, user_quiz_limits, user_stats >>
      /\ \A u \in Users :
           ( \/ AttemptsToday(user_quiz_limits', u) > AttemptsToday(user_quiz_limits, u)
             \/ StatsOf(user_stats', u) # StatsOf(user_stats, u) )
           => \E a \in user_daily_attempts' \ user_daily_attempts : a.user_id = u ]_vars

\* a second submission of the day was refused on the insert while the user's
\* limit row and stats still show the one recorded attempt
C17_Witness ==
  \E p \in Procs :
    /\ Done(p, "submit") /\ calls[p].result.error = "unique_violation"
    /\ \E l \in LimitsOf(calls[p].user) :
         l.attempts_today = 1 /\ l.last_attempt_date = calls[p].txDate
    /\ \E st \in user_stats : st.user_id = calls[p].user /\ st.missions_completed = 1
    /\ Cardinality({ a \in user_daily_attempts : a.user_id = calls[p].user }) = 1

\* the user's total_xp, 0 without a stats row
TotalXp(stats, u) ==
  IF \E st \in stats : st.user_id = u
    THEN (CHOOSE st \in stats : st.user_id = u).total_xp ELSE 0

\* C18: every successful submit_daily_quiz_attempt adds the attempt's XP to the
\* user's total_xp in place: the new total is the previous one (0 when the user
\* had no stats row, which is then created) plus xp_earned, the user keeps one
\* stats row, and no step lowers a total (no increment is lost).
C18_XpIsAddedInPlace ==
  [][ /\ \A p \in Procs :
           ( calls[p].pc # "done" /\ calls'[p].pc = "done" /\ calls'[p].op = "submit"
             /\ calls'[p].result.ok )
           => /\ Cardinality(StatsOf(user_stats', calls'[p].user)) = 1
              /\ TotalXp(user_stats', calls'[p].user) =
                   TotalXp(user_stats, calls'[p].user) + calls'[p].result.xp_earned
      /\ \A u \in Users : TotalXp(user_stats', u) >= TotalXp(user_stats, u) ]_vars

\* two submissions of one user that were in flight together (one begun on each
\* day) both succeeded, and the total holds the XP of both
C18_Witness ==
  \E p, q \in Procs :
    /\ Concurrent(p, q) /\ Done(p, "submit") /\ Done(q, "submit")
    /\ calls[p].user = calls[q].user
    /\ calls[p].result.ok /\ calls[q].result.ok
    /\ calls[p].result.xp_earned > 0 /\ calls[q].result.xp_earned > 0
    /\ TotalXp(user_stats, calls[p].user) =
         calls[p].result.xp_earned + calls[q].result.xp_earned

\* the attempts_today a check works with: 0 when the row read carries another date
AttemptsSeen(l, d) == IF l.last_attempt_date # d THEN 0 ELSE l.attempts_today

\* C19: for a user whose premium is off or expired the limit check reports
\* can_attempt = (attempts_today < daily_limit) and
\* remaining = max(0, daily_limit - attempts_today), never a negative number,
\* whatever attempts_today and daily_limit are stored.
C19_FreeQuotaArithmetic ==
  \A p \in Procs :
    ( Done(p, "check") /\ calls[p].result.ok )
    => \A l \in calls[p].rd :
         ~PremiumInForce(l, calls[p].txDate)
         => LET used == AttemptsSeen(l, calls[p].txDate)
            IN  /\ calls[p].result.attempts_today = used
                /\ calls[p].result.daily_limit = l.daily_limit
                /\ calls[p].result.can_attempt = (used < l.daily_limit)
                /\ calls[p].result.remaining_attempts =
                     (IF l.daily_limit - used > 0 THEN l.daily_limit - used ELSE 0)
                /\ calls[p].result.remaining_attempts >= 0

\* a check read a free user's row holding more attempts than the limit allows
\* and reported can_attempt = false with 0 remaining
C19_Witness ==
  \E p \in Procs :
    /\ Done(p, "check") /\ calls[p].result.ok
    /\ \E l \in calls[p].rd :
         /\ ~l.is_premium /\ l.last_attempt_date = calls[p].txDate
         /\ l.attempts_today > l.daily_limit
    /\ ~calls[p].result.can_attempt /\ calls[p].result.remaining_attempts = 0

\* xp_reward := 50 + (correct_count * 5) of the first version of the procedure
XpBase == 50
XpPerCorrect == 5

\* C20: the XP of a successful attempt is a fixed base plus a fixed bonus per
\* correct answer, 50 + 5 * correct_count, so it depends on correct_count only
\* and not on the points of the questions answered correctly.
C20_XpIsBasePlusPerCorrectBonus ==
  \A p \in Procs :
    ( Done(p, "submit") /\ calls[p].result.ok )
    => calls[p].result.xp_earned = XpBase + XpPerCorrect * calls[p].result.correct_answers

\* the business states a failed submission may reach the client as
AlreadySubmittedToday == "already_submitted_today"
StorageUnavailable == "storage_unavailable"
BusinessStates == { NoActiveSession, LimitExceeded, AlreadySubmittedToday, StorageUnavailable }

\* C21: every failed submission reaches the client as one of the business states
\* NoActiveSession, LimitExceeded, AlreadySubmittedToday or StorageUnavailable,
\* never as the raw storage error, and a submission refused because the user
\* has already submitted today is not shown to the user as a completed quiz.
C21_FailuresAreBusinessStates ==
  \A p \in Procs :
    ( Done(p, "submit") /\ ~calls[p].result.ok )
    => LET submitResult == SubmitDailyQuiz(calls[p].result)
       IN  /\ ~submitResult.success
           /\ submitResult.error \in BusinessStates
           /\ calls[p].hadAttempt => ~SubmitQuiz(submitResult).isCompleted

\* C22: the is_premium a limit check returns is the computed one, true only when
\* the stored flag is set and premium_expires_at is null or later than now; for
\* a user whose premium has expired it is false and can_attempt and remaining
\* follow the free user's quota of one attempt a day.
C22_IsPremiumIsComputed ==
  \A p \in Procs :
    ( Done(p, "check") /\ calls[p].result.ok )
    => \A l \in calls[p].rd :
         /\ calls[p].result.is_premium = PremiumInForce(l, calls[p].txDate)
         /\ ( l.is_premium /\ ~PremiumInForce(l, calls[p].txDate) )
            => LET used == AttemptsSeen(l, calls[p].txDate)
               IN  /\ calls[p].result.can_attempt = (used < DefaultDailyLimit)
                   /\ calls[p].result.remaining_attempts =
                        (IF DefaultDailyLimit - used > 0 THEN DefaultDailyLimit - used ELSE 0)

\* the attempt rows of a user that a step inserts
InsertedFor(u) == { a \in user_daily_attempts' \ user_daily_attempts : a.user_id = u }

\* the user's missions_completed, 0 without a stats row
MissionsCompleted(stats, u) ==
  IF \E st \in stats : st.user_id = u
    THEN (CHOOSE st \in stats : st.user_id = u).missions_completed ELSE 0

\* C23: the attempt insert, the increment of attempts_today and the stats update
\* of one submission are one atomic unit: a step inserts an attempt row of a
\* user exactly when it raises that user's stored attempts_today by one (dated
\* today) and adds the submission to the user's stats.
C23_InsertIncrementAndStatsAreOneUnit ==
  [][ \A u \in Users :
        ( InsertedFor(u) # {} )
        <=> ( /\ \E l \in { r \in user_quiz_limits' : r.user_id = u } :
                   /\ l.attempts_today = AttemptsToday(user_quiz_limits, u) + 1
                   /\ \A a \in InsertedFor(u) : l.last_attempt_date = a.quiz_date
              /\ MissionsCompleted(user_stats', u) = MissionsCompleted(user_stats, u) + 1 ) ]_vars

\* the attempt rows a user has for a date
AttemptsOn(u, d) == { a \in user_daily_attempts : a.user_id = u /\ a.quiz_date = d }

\* C25: a date-rollover reset performed by a limit check never erases the
\* increment of an attempt that completed concurrently on the new day: once a
\* check of today has reset a row of an earlier date, a row dated today holds
\* an attempts_today of at least the number of the user's attempt rows of today.
C25_ResetKeepsConcurrentIncrement ==
  \A p \in Procs :
    ( /\ Done(p, "check") /\ calls[p].result.ok /\ calls[p].txDate = today
      /\ \E r \in calls[p].rd : r.last_attempt_date # calls[p].txDate )
    => \A l \in LimitsOf(calls[p].user) :
         l.last_attempt_date = today
         => l.attempts_today >= Cardinality(AttemptsOn(calls[p].user, today))

\* C26: when a session exists for today and a limit check has reported
\* can_attempt = true for a user, the submission the user issues next, with no
\* other operation of the user in between, succeeds (free users, premium users
\* who already submitted today, users whose limit row was created after their
\* attempt).
C26_AllowedSubmissionSucceeds ==
  [][ \A p \in Procs :
        ( /\ calls[p].pc = "submit_insert" /\ calls'[p].pc = "done"
          /\ calls[p].checked
          /\ calls[p].hadAttempt = ~UserDateIsFree(calls[p].user, calls[p].txDate) )
        => calls'[p].result.ok ]_vars

\* C28: a limit check of a user who has no limit row creates the row with
\* daily_limit = 1, attempts_today = 0 and last_attempt_date = today and reports
\* can_attempt = true; when two such first checks of one user overlap, exactly
\* one row results and neither call fails.
C28_FirstCheckCreatesTheRow ==
  [][ \A p \in Procs :
        ( calls[p].pc = "check_insert" /\ calls'[p].pc = "done" )
        => /\ calls'[p].result.ok
           /\ calls'[p].result.can_attempt
           /\ { l \in user_quiz_limits' : l.user_id = calls[p].user } =
                { [ DefaultLimits(calls[p].user, calls[p].txDate)
                      EXCEPT !.daily_limit = 1, !.attempts_today = 0 ] } ]_vars

\* the record the client is given when the limit check fails
PermissiveLimits ==
  [can_attempt |-> TRUE, remaining_attempts |-> 1, is_premium |-> FALSE,
   daily_limit |-> 1, attempts_today |-> 0]

\* C29: when the check_user_quiz_limit call fails, DailyQuizService.checkUserLimits
\* does not pass the error on: it returns can_attempt = true, remaining_attempts = 1,
\* is_premium = false, daily_limit = 1, attempts_today = 0, whatever the stored
\* attempts_today is, and the failed call leaves the stored limit rows as they were.
C29_FailedCheckIsPermissive ==
  [][ \A p \in Procs :
        ( /\ calls[p].op = "check" /\ calls[p].pc # "done" /\ calls'[p].pc = "done"
          /\ ~calls'[p].result.ok )
        => /\ CheckUserLimits(calls'[p].result) = PermissiveLimits
           /\ user_quiz_limits' = user_quiz_limits ]_vars

\* a limit check has failed while the user's stored row counts one attempt today
C29_Witness ==
  \E p \in Procs :
    /\ Done(p, "check") /\ ~calls[p].result.ok
    /\ calls[p].txDate = today
    /\ \E l \in LimitsOf(calls[p].user) :
         l.attempts_today = 1 /\ l.last_attempt_date = today

\* the retryable error a caller is to receive when no session can be obtained
SessionUnavailable == "session_unavailable"

\* the session row a loaded quiz was built from
SessionShown(quiz) == CHOOSE s \in daily_quiz_sessions : s.id = quiz.id

\* C24: when the storage layer fails while the session is created, the session
\* is fetched again and, if it still cannot be obtained, the caller receives the
\* retryable 'session unavailable' error; and no caller receives a session
\* without its full question list.
C24_FetchIsRetriedAndSessionsAreWhole ==
  \A p \in Procs :
    Done(p, "quiz")
    => LET quiz == EnsureTodayQuiz(calls[p].result)
       IN  /\ ( ~quiz.ok /\ quiz.cause = "create_failed" )
                => ( quiz.fetches >= 1 /\ quiz.error = SessionUnavailable )
           /\ quiz.ok
                => Len(quiz.questions) = Len(SessionShown(quiz).selected_questions)

\* C27: the question getTodayQuiz shows at position i is the question the
\* server grades answers[i] against, the i-th entry of the session's
\* selected_questions, also when a selected question was deactivated after the
\* session was created.
C27_ShownPositionIsGradedPosition ==
  \A p \in Procs :
    ( Done(p, "quiz") /\ calls[p].result.ok )
    => \A i \in 1..Len(calls[p].result.questions) :
         calls[p].result.questions[i] =
           SessionShown(calls[p].result).selected_questions[i]

\* C30: the session row getTodayQuiz reads by the client's date is the session
\* whose id create_daily_quiz_session returned in the same call: the client's
\* date and CURRENT_DATE select the same row, so the call never ends with null
\* or with another day's session because the two dates differ.
C30_ClientReadsTheSessionCreated ==
  [][ \A p \in Procs :
        ( /\ Done(p, "create") /\ calls[p].result.ok
          /\ calls'[p].op = "quiz" )
        => /\ calls'[p].pc = "quiz_questions"
           /\ \A s \in calls'[p].rd : /\ s.id = calls[p].result.session_id
                                      /\ s.quiz_date = calls[p].txDate ]_vars

====
